---- MODULE Spec2Model ----
(***************************************************************************)
(* Model of the CETD density-tree engine of dom-content-extraction         *)
(* (src/src/cetd.rs, src/src/utils.rs, src/src/unicode.rs).                *)
(*                                                                         *)
(* A scraper::Html document is a sequence of DOM nodes indexed by NodeId;  *)
(* a DensityTree is the ego_tree node vector in insertion order.  f32 is   *)
(* modelled as fixed-point numbers (Scale units per 1.0) together with the *)
(* IEEE-754 special values +inf, -inf and NaN.                             *)
(***************************************************************************)
EXTENDS Integers, Sequences, FiniteSets, TLC

\* Largest number of DOM nodes of a document (the body included).
MaxNodes == 5

\* Largest number of nodes of a hand-built DensityTree (the root included).
MaxTreeNodes == 4

\* Largest number of nodes of a hand-built DensityTree, and of the document
\* it is queried against, where that document holds text.
MaxTextNodes == 3

\* Largest value of a count of NodeMetrics set by a caller.
MaxCount == 2

\* Largest number of DOM nodes of a page to which an excluded element with a
\* text is added.
MaxPageNodes == 4

\* Largest number of characters of a text handed to normalize_text, and of
\* the first text node of the documents it is taken from.
MaxTextLen == 4

\* Largest number of elements wrapped around the content of a page handed to
\* extract_content_as_markdown.
MaxWrappers == 4

(***************************************************************************)
(* f32                                                                     *)
(***************************************************************************)
\* Fixed-point resolution of the finite f32 values.
Scale == 1000

Fin(v) == [k |-> "fin", v |-> v]
PInf == [k |-> "inf", v |-> 1]
NInf == [k |-> "inf", v |-> -1]
NaN == [k |-> "nan", v |-> 0]
F0 == Fin(0)

IsNaN(a) == a.k = "nan"
IsInf(a) == a.k = "inf"
IsFin(a) == a.k = "fin"
Sgn(n) == IF n > 0 THEN 1 ELSE IF n < 0 THEN -1 ELSE 0
Abs(n) == IF n < 0 THEN -n ELSE n
\* integer division rounding toward zero
TDiv(a, b) == Sgn(a) * Sgn(b) * (Abs(a) \div Abs(b))

\* u32 as f32
AsF32(n) == Fin(n * Scale)

\* f32 + f32
FAdd(a, b) ==
    IF IsNaN(a) \/ IsNaN(b) THEN NaN
    ELSE IF IsInf(a) /\ IsInf(b) THEN (IF a.v = b.v THEN a ELSE NaN)
    ELSE IF IsInf(a) THEN a
    ELSE IF IsInf(b) THEN b
    ELSE Fin(a.v + b.v)

\* f32 * f32
FMul(a, b) ==
    IF IsNaN(a) \/ IsNaN(b) THEN NaN
    ELSE IF IsInf(a) \/ IsInf(b)
         THEN (IF a.v = 0 \/ b.v = 0 THEN NaN
               ELSE IF Sgn(a.v) * Sgn(b.v) > 0 THEN PInf ELSE NInf)
    ELSE Fin(TDiv(a.v * b.v, Scale))

\* f32 / f32 (IEEE-754: x/0 is an infinity, 0/0 and inf/inf are NaN)
FDiv(a, b) ==
    IF IsNaN(a) \/ IsNaN(b) THEN NaN
    ELSE IF IsInf(a)
         THEN (IF IsInf(b) THEN NaN
               ELSE IF a.v * Sgn(b.v) >= 0 THEN PInf ELSE NInf)
    ELSE IF IsInf(b) THEN F0
    ELSE IF b.v = 0
         THEN (IF a.v = 0 THEN NaN ELSE IF a.v > 0 THEN PInf ELSE NInf)
    ELSE Fin(TDiv(a.v * Scale, b.v))

\* Natural logarithm of a positive fixed-point number: range reduction to
\* [1, 2) by powers of two, then ln m = 2 atanh((m-1)/(m+1)).
RECURSIVE LnFix(_)
LnFix(x) ==
    IF x >= 2 * Scale THEN LnFix(x \div 2) + 693
    ELSE IF x < Scale THEN LnFix(2 * x) - 693
    ELSE LET z == ((x - Scale) * Scale) \div (x + Scale)
             z3 == (((z * z) \div Scale) * z) \div Scale
         IN 2 * z + (2 * z3) \div 3

\* f32::ln
FLn(a) ==
    IF IsNaN(a) THEN NaN
    ELSE IF IsInf(a) THEN (IF a.v > 0 THEN PInf ELSE NaN)
    ELSE IF a.v < 0 THEN NaN
    ELSE IF a.v = 0 THEN NInf
    ELSE Fin(LnFix(a.v))

\* f32::log(self, base) == self.ln() / base.ln()
FLog(a, base) == FDiv(FLn(a), FLn(base))

\* f32::partial_cmp: "lt", "eq", "gt", or "none" when a NaN is involved
FPartialCmp(a, b) ==
    IF IsNaN(a) \/ IsNaN(b) THEN "none"
    ELSE LET x == IF IsInf(a) THEN a.v * 2 ELSE 0
             y == IF IsInf(b) THEN b.v * 2 ELSE 0
         IN IF x # y THEN (IF x < y THEN "lt" ELSE "gt")
            ELSE IF IsInf(a) THEN "eq"
            ELSE IF a.v < b.v THEN "lt"
            ELSE IF a.v > b.v THEN "gt" ELSE "eq"

FGe(a, b) == FPartialCmp(a, b) \in {"gt", "eq"}
FGt(a, b) == FPartialCmp(a, b) = "gt"

\* Option<f32>
None == [k |-> "none", v |-> 0]
IsSome(o) == o.k # "none"

\* Option<f32>::partial_cmp: None is less than every Some
OptPartialCmp(a, b) ==
    IF ~IsSome(a) /\ ~IsSome(b) THEN "eq"
    ELSE IF ~IsSome(a) THEN "lt"
    ELSE IF ~IsSome(b) THEN "gt"
    ELSE FPartialCmp(a, b)

\* Option<f32>::unwrap_or
UnwrapOr(o, d) == IF IsSome(o) THEN o ELSE d

\* std::f32::consts::E
E == Fin(2718)

(***************************************************************************)
(* Strings: sequences of characters.  " " and "\n" are white space,        *)
(* "U+0301" is the combining acute accent and "U+00E9" the precomposed     *)
(* e-acute.                                                                *)
(***************************************************************************)
IsWhitespace(c) == c \in {" ", "\n"}
IsCombining(c) == c = "U+0301"

RECURSIVE TrimStart(_)
TrimStart(s) ==
    IF s # <<>> /\ IsWhitespace(Head(s)) THEN TrimStart(Tail(s)) ELSE s

RECURSIVE TrimEnd(_)
TrimEnd(s) ==
    IF s # <<>> /\ IsWhitespace(s[Len(s)])
    THEN TrimEnd(SubSeq(s, 1, Len(s) - 1)) ELSE s

\* str::trim
Trim(s) == TrimEnd(TrimStart(s))

\* unicode::count_graphemes: a combining mark extends the cluster before it
count_graphemes(s) ==
    Cardinality({i \in 1..Len(s) : i = 1 \/ ~IsCombining(s[i])})

\* text.nfc(): canonical composition
RECURSIVE Nfc(_)
Nfc(s) ==
    IF Len(s) < 2 THEN s
    ELSE IF s[1] = "e" /\ s[2] = "U+0301"
         THEN <<"U+00E9">> \o Nfc(SubSeq(s, 3, Len(s)))
    ELSE <<s[1]>> \o Nfc(Tail(s))

\* str::split_whitespace: the maximal runs of non-white-space characters
RECURSIVE SplitWhitespace(_, _)
SplitWhitespace(s, word) ==
    IF s = <<>> THEN (IF word = <<>> THEN <<>> ELSE <<word>>)
    ELSE IF IsWhitespace(Head(s))
         THEN (IF word = <<>> THEN <<>> ELSE <<word>>)
              \o SplitWhitespace(Tail(s), <<>>)
    ELSE SplitWhitespace(Tail(s), Append(word, Head(s)))

\* [String]::join(" ")
RECURSIVE Join(_)
Join(parts) ==
    IF parts = <<>> THEN <<>>
    ELSE IF Len(parts) = 1 THEN parts[1]
    ELSE parts[1] \o <<" ">> \o Join(Tail(parts))

\* Mutant of normalize_text: the ends are trimmed, white space inside is kept.
normalize_text_TrimOnly(s) == Trim(Nfc(s))

\* unicode::normalize_text
normalize_text(s) == Join(SplitWhitespace(Nfc(s), <<>>))

(***************************************************************************)
(* The DOM (scraper::Html): document[id] is the node with that NodeId,     *)
(* parent = 0 for the body, whose parent (the html element) is not part of *)
(* the model.  Children are ordered by id.                                 *)
(***************************************************************************)
Element(name, parent) ==
    [kind |-> "element", name |-> name, text |-> <<>>, parent |-> parent]
Text(text, parent) ==
    [kind |-> "text", name |-> "", text |-> text, parent |-> parent]
Comment(parent) ==
    [kind |-> "comment", name |-> "", text |-> <<>>, parent |-> parent]

\* Text contents of the modelled documents: white space only, one character
\* with trailing white space, two graphemes in three code points.
TextValues == { <<" ">>, <<"x", " ">>, <<"x", "e", "U+0301">> }

\* Element names of the modelled documents.
ElementNames == {"div", "a", "script"}

\* What a node below the body can be (its parent is set by MakeDocument).
NodeValues ==
    {Element(n, 0) : n \in ElementNames}
        \cup {Text(t, 0) : t \in TextValues}
        \cup {Comment(0)}

\* Every node but the body is created below an earlier node.
ParentVectors(n) ==
    {p \in [1..n -> 0..(n - 1)] : p[1] = 0 /\ \A i \in 2..n : p[i] \in 1..(i - 1)}

\* The document of n nodes with these parents and contents; node 1 is the body.
MakeDocument(n, parents, values) ==
    [i \in 1..n |->
        IF i = 1 THEN Element("body", 0)
        ELSE [values[i] EXCEPT !.parent = parents[i]]]

\* Only elements have children.
WellFormed(d) == \A i \in 2..Len(d) : d[d[i].parent].kind = "element"

\* ego_tree NodeRef::children of a DOM node, in sibling order
RECURSIVE SeqOfSet(_)
SeqOfSet(S) ==
    IF S = {} THEN <<>>
    ELSE LET m == CHOOSE x \in S : \A y \in S : x <= y
         IN <<m>> \o SeqOfSet(S \ {m})

DomChildren(document, id) ==
    SeqOfSet({c \in 1..Len(document) : document[c].parent = id})

(***************************************************************************)
(* NodeMetrics (src/src/tree.rs) and DensityNode                           *)
(***************************************************************************)
\* NodeMetrics::new
NewMetrics ==
    [char_count |-> 0, tag_count |-> 0,
     link_char_count |-> 0, link_tag_count |-> 0]

\* Mutant of combine: char_count is not added.
combine_DropsChars(self, other) ==
    [char_count |-> self.char_count,
     tag_count |-> self.tag_count + other.tag_count,
     link_char_count |-> self.link_char_count + other.link_char_count,
     link_tag_count |-> self.link_tag_count + other.link_tag_count]

\* NodeMetrics::combine
combine(self, other) ==
    [char_count |-> self.char_count + other.char_count,
     tag_count |-> self.tag_count + other.tag_count,
     link_char_count |-> self.link_char_count + other.link_char_count,
     link_tag_count |-> self.link_tag_count + other.link_tag_count]

\* DensityNode::new, as appended below the tree node `parent` (0: the root)
NewDensityNode(node_id, parent) ==
    [node_id |-> node_id, parent |-> parent, metrics |-> NewMetrics,
     density |-> F0, density_sum |-> None]

\* DensityTree::new
NewDensityTree(node_id) == <<NewDensityNode(node_id, 0)>>

\* ego_tree NodeRef::children of a density node, in sibling order
TreeChildren(t, i) == SeqOfSet({c \in 1..Len(t) : t[c].parent = i})

(***************************************************************************)
(* DensityTree (src/src/cetd.rs)                                           *)
(***************************************************************************)
\* normalize_denominator
normalize_denominator(value) == IF value = 0 THEN Fin(Scale) ELSE AsF32(value)

\* u32::saturating_sub
saturating_sub(a, b) == IF a > b THEN a - b ELSE 0

\* Mutant of composite_text_density: no early return for char_count == 0.
composite_text_density_NoZeroReturn(metrics, body_metrics) ==
    LET ci == AsF32(metrics.char_count)
        ti == normalize_denominator(metrics.tag_count)
        nlci == normalize_denominator(
                    saturating_sub(metrics.char_count, metrics.link_char_count))
        lci == AsF32(metrics.link_char_count)
        cb == normalize_denominator(body_metrics.char_count)
        lcb == AsF32(body_metrics.link_char_count)
        lti == normalize_denominator(metrics.link_tag_count)
        density == FDiv(ci, ti)
        ln_1 == FMul(FDiv(ci, nlci), lci)
        ln_2 == FMul(FDiv(lcb, cb), ci)
        log_base == FLn(FAdd(FAdd(ln_1, ln_2), E))
        value == FMul(FDiv(ci, lcb), FDiv(ti, lti))
    IN FMul(FLog(value, log_base), density)

\* DensityTree::composite_text_density
composite_text_density(metrics, body_metrics) ==
    IF metrics.char_count = 0 THEN F0
    ELSE
    LET ci == AsF32(metrics.char_count)
        ti == normalize_denominator(metrics.tag_count)
        nlci == normalize_denominator(
                    saturating_sub(metrics.char_count, metrics.link_char_count))
        lci == AsF32(metrics.link_char_count)
        cb == normalize_denominator(body_metrics.char_count)
        lcb == AsF32(body_metrics.link_char_count)
        lti == normalize_denominator(metrics.link_tag_count)
        density == FDiv(ci, ti)
        ln_1 == FMul(FDiv(ci, nlci), lci)
        ln_2 == FMul(FDiv(lcb, cb), ci)
        log_base == FLn(FAdd(FAdd(ln_1, ln_2), E))
        value == FMul(FDiv(ci, lcb), FDiv(ti, lti))
    IN FMul(FLog(value, log_base), density)

\* Mutant of IsSkipped: script elements are not skipped.
IsSkipped_NoScript(node) ==
    \/ node.kind = "element" /\ node.name \in {"noscript", "style"}
    \/ node.kind \in {"comment", "document"}

\* The child loop of build_density_tree skips these nodes with their subtrees.
IsSkipped(node) ==
    \/ node.kind = "element" /\ node.name \in {"script", "noscript", "style"}
    \/ node.kind \in {"comment", "document"}

\* The node's own counts ("Process current node").
ProcessCurrent(node, m) ==
    IF node.kind = "text"
    THEN [m EXCEPT !.char_count = @ + count_graphemes(Trim(node.text))]
    ELSE IF node.kind = "element"
    THEN [m EXCEPT !.tag_count = @ + 1,
                   !.link_tag_count =
                       IF node.name \in {"a", "button", "select"}
                       THEN @ + 1 ELSE @]
    ELSE m

\* "Handle link char count for text within links": the DOM parent is an <a>.
ParentIsAnchor(document, id) ==
    LET p == document[id].parent
    IN p # 0 /\ document[p].kind = "element" /\ document[p].name = "a"

\* Mutant of LinkChars: only the text node's own characters are added.
LinkChars_LocalOnly(document, id, m) ==
    IF ParentIsAnchor(document, id) /\ document[id].kind = "text"
    THEN [m EXCEPT !.link_char_count = @ + m.char_count]
    ELSE m

LinkChars(document, id, m) ==
    IF ParentIsAnchor(document, id)
    THEN [m EXCEPT !.link_char_count = @ + m.char_count]
    ELSE m

\* "Update parent metrics by combining current node's metrics"
UpdateParent(t, di) ==
    IF t[di].parent # 0
    THEN [t EXCEPT ![t[di].parent].metrics = combine(@, t[di].metrics)]
    ELSE t

\* DensityTree::build_density_tree(node, density_node) on the tree vector t:
\* `id` is the DOM node, `di` the index of its density node.
RECURSIVE build_density_tree(_, _, _, _)

\* Mutant of BuildChildren: all children are appended before any of them is
\* descended into.
RECURSIVE DescendInto(_, _, _, _)
DescendInto(document, kept, first, t) ==
    IF kept = <<>> THEN t
    ELSE DescendInto(document, Tail(kept), first + 1,
                     build_density_tree(document, Head(kept), first, t))

BuildChildren_AppendAllFirst(document, children, di, t) ==
    LET kept == SelectSeq(children, LAMBDA c : ~IsSkipped(document[c]))
        appended == t \o [k \in 1..Len(kept) |-> NewDensityNode(kept[k], di)]
    IN DescendInto(document, kept, Len(t) + 1, appended)

RECURSIVE BuildChildren(_, _, _, _)
BuildChildren(document, children, di, t) ==
    IF children = <<>> THEN t
    ELSE LET child == Head(children)
         IN IF IsSkipped(document[child])
            THEN BuildChildren(document, Tail(children), di, t)
            ELSE LET t1 == Append(t, NewDensityNode(child, di))
                     t2 == build_density_tree(document, child, Len(t1), t1)
                 IN BuildChildren(document, Tail(children), di, t2)

build_density_tree(document, id, di, t) ==
    LET t1 == BuildChildren(document, DomChildren(document, id), di, t)
        m1 == ProcessCurrent(document[id], t1[di].metrics)
        m2 == LinkChars(document, id, m1)
        t2 == [t1 EXCEPT ![di].metrics = m2]
    IN UpdateParent(t2, di)

\* Mutant of calculate_density_tree: density_sum is cleared as well.
calculate_density_tree_ClearsSum(t) ==
    LET body_node == t[1]
    IN [i \in 1..Len(t) |->
           [t[i] EXCEPT !.density =
               composite_text_density(t[i].metrics, body_node.metrics),
                        !.density_sum = None]]

\* DensityTree::calculate_density_tree
calculate_density_tree(t) ==
    LET body_node == t[1]
    IN [i \in 1..Len(t) |->
           [t[i] EXCEPT !.density =
               composite_text_density(t[i].metrics, body_node.metrics)]]

\* document.select(&BODY_SELECTOR).next(): the body is node 1
BodyNodeId == 1

\* DensityTree::from_document
from_document(document) ==
    calculate_density_tree(
        build_density_tree(document, BodyNodeId, 1, NewDensityTree(BodyNodeId)))

(***************************************************************************)
(* src/src/lib.rs: the crate root holds its own DensityTree, whose         *)
(* build_density_tree keeps the counts in the DensityNode itself.  The     *)
(* counts are kept in the metrics record here.                             *)
(***************************************************************************)
\* The number of bytes of a character in UTF-8
Utf8Len(c) == IF c \in {"U+0301", "U+00E9"} THEN 2 ELSE 1

\* str::len
RECURSIVE StrLen(_)
StrLen(s) == IF s = <<>> THEN 0 ELSE Utf8Len(Head(s)) + StrLen(Tail(s))

\* lib.rs build_density_tree, "match node.value()": the element names are
\* compared with "a", "button" and "select " (with the blank).
lib_ProcessCurrent(node, m) ==
    IF node.kind = "text"
    THEN [m EXCEPT !.char_count = @ + StrLen(Trim(node.text))]
    ELSE IF node.kind = "element"
    THEN [m EXCEPT !.tag_count = @ + 1,
                   !.link_tag_count =
                       IF node.name \in {"a", "button", "select "}
                       THEN @ + 1 ELSE @]
    ELSE m

\* lib.rs DensityTree::build_density_tree(node, density_node, _depth)
RECURSIVE lib_build_density_tree(_, _, _, _)
RECURSIVE lib_BuildChildren(_, _, _, _)
lib_BuildChildren(document, children, di, t) ==
    IF children = <<>> THEN t
    ELSE LET child == Head(children)
         IN IF IsSkipped(document[child])
            THEN lib_BuildChildren(document, Tail(children), di, t)
            ELSE LET t1 == Append(t, NewDensityNode(child, di))
                     t2 == lib_build_density_tree(document, child, Len(t1), t1)
                 IN lib_BuildChildren(document, Tail(children), di, t2)

lib_build_density_tree(document, id, di, t) ==
    LET t1 == lib_BuildChildren(document, DomChildren(document, id), di, t)
        m == lib_ProcessCurrent(document[id], t1[di].metrics)
        density == IF m.tag_count > 0
                   THEN FDiv(AsF32(m.char_count), AsF32(m.tag_count))
                   ELSE t1[di].density
        link_char_count ==
            IF ParentIsAnchor(document, id)
            THEN m.link_char_count + m.char_count
            ELSE m.link_char_count
        t2 == [t1 EXCEPT ![di].metrics = m, ![di].density = density]
        parent == t2[di].parent
    IN IF parent # 0
       THEN [t2 EXCEPT
                ![parent].metrics.char_count = @ + m.char_count,
                ![parent].metrics.tag_count = @ + m.tag_count,
                ![parent].metrics.link_tag_count = @ + m.link_tag_count,
                ![parent].metrics.link_char_count = @ + link_char_count]
       ELSE t2

\* slice::sort_by (stable) with partial_cmp(..).unwrap_or(Equal): x goes
\* behind every element that does not compare greater than it
RECURSIVE SortInsert(_, _, _)
SortInsert(t, sorted, x) ==
    IF sorted = <<>> THEN <<x>>
    ELSE IF FPartialCmp(t[Head(sorted)].density, t[x].density) = "gt"
    THEN <<x>> \o sorted
    ELSE <<Head(sorted)>> \o SortInsert(t, Tail(sorted), x)

RECURSIVE SortBy(_, _, _)
SortBy(t, nodes, sorted) ==
    IF nodes = <<>> THEN sorted
    ELSE SortBy(t, Tail(nodes), SortInsert(t, sorted, Head(nodes)))

\* DensityTree::sorted_nodes: the nodes (by position in the tree) that pass
\* the filter n.density.gt(&0.0), sorted by density
sorted_nodes(t) ==
    LET positions == [i \in 1..Len(t) |-> i]
        nodes == SelectSeq(positions, LAMBDA i : FGt(t[i].density, F0))
    IN SortBy(t, nodes, <<>>)

\* Iterator::sum over f32
RECURSIVE FSum(_)
FSum(xs) == IF xs = <<>> THEN F0 ELSE FAdd(FSum(SubSeq(xs, 1, Len(xs) - 1)), xs[Len(xs)])

\* The densities of the children of node i, in sibling order
ChildDensities(t, i) ==
    LET cs == TreeChildren(t, i) IN [k \in 1..Len(cs) |-> t[cs[k]].density]

\* The densities of all nodes below node i
RECURSIVE DescendantDensities(_, _)
DescendantDensities(t, i) ==
    LET cs == TreeChildren(t, i)
        F[k \in 0..Len(cs)] ==
            IF k = 0 THEN <<>>
            ELSE F[k - 1] \o <<t[cs[k]].density>>
                     \o DescendantDensities(t, cs[k])
    IN F[Len(cs)]

\* Mutant of calculate_density_sum: grandchildren and below are summed too.
calculate_density_sum_Descendants(t) ==
    [i \in 1..Len(t) |->
        [t[i] EXCEPT !.density_sum = FSum(DescendantDensities(t, i))]]

\* Mutant of calculate_density_sum: the sum is added to the density_sum the
\* node already has.
calculate_density_sum_Accumulates(t) ==
    [i \in 1..Len(t) |->
        [t[i] EXCEPT !.density_sum =
            FAdd(UnwrapOr(t[i].density_sum, F0), FSum(ChildDensities(t, i)))]]

\* Mutant of calculate_density_sum: leaves keep the density_sum they had.
calculate_density_sum_SkipsLeaves(t) ==
    [i \in 1..Len(t) |->
        IF TreeChildren(t, i) = <<>> THEN t[i]
        ELSE [t[i] EXCEPT !.density_sum = FSum(ChildDensities(t, i))]]

\* DensityTree::calculate_density_sum
calculate_density_sum(t) ==
    [i \in 1..Len(t) |->
        [t[i] EXCEPT !.density_sum = FSum(ChildDensities(t, i))]]

\* Mutant of MaxBy: an equal element does not replace the one seen so far.
RECURSIVE MaxBy_FirstWins(_, _, _)
MaxBy_FirstWins(t, i, best) ==
    IF i > Len(t) THEN best
    ELSE LET c == OptPartialCmp(t[best].density_sum, t[i].density_sum)
         IN MaxBy_FirstWins(t, i + 1, IF c \in {"gt", "eq"} THEN best ELSE i)

\* Mutant of MaxBy: the comparison is reversed (min_by).
RECURSIVE MaxBy_Reversed(_, _, _)
MaxBy_Reversed(t, i, best) ==
    IF i > Len(t) THEN best
    ELSE LET c == OptPartialCmp(t[i].density_sum, t[best].density_sum)
         IN MaxBy_Reversed(t, i + 1, IF c = "gt" THEN best ELSE i)

\* Iterator::max_by over tree.nodes(): the fold keeps the element seen so far
\* only when it compares greater; partial_cmp's None counts as Equal.
RECURSIVE MaxBy(_, _, _)
MaxBy(t, i, best) ==
    IF i > Len(t) THEN best
    ELSE LET c == OptPartialCmp(t[best].density_sum, t[i].density_sum)
         IN MaxBy(t, i + 1, IF c = "gt" THEN best ELSE i)

\* DensityTree::get_max_density_sum_node: the index of the node, 0 for None
get_max_density_sum_node(t) ==
    IF t = <<>> THEN 0 ELSE MaxBy(t, 2, 1)

\* NodeRef::ancestors: the parent, its parent, ... up to the root
RECURSIVE Ancestors(_, _)
Ancestors(t, i) ==
    IF t[i].parent = 0 THEN <<>>
    ELSE <<t[i].parent>> \o Ancestors(t, t[i].parent)

\* Mutant of Threshold: the node's own density is averaged in as well.
Threshold_WithSelf(t, max_node) ==
    LET anc == <<max_node>> \o Ancestors(t, max_node)
        ancestor_densities == [k \in 1..Len(anc) |-> t[anc[k]].density]
    IN FDiv(FSum(ancestor_densities), AsF32(Len(ancestor_densities)))

\* extract_content: "Calculate the average density of ancestors"
Threshold(t, max_node) ==
    LET anc == Ancestors(t, max_node)
        ancestor_densities == [k \in 1..Len(anc) |-> t[anc[k]].density]
    IN IF ancestor_densities = <<>>
       THEN t[max_node].density
       ELSE FDiv(FSum(ancestor_densities), AsF32(Len(ancestor_densities)))

\* Mutant of InRegion: an absent density_sum counts as 1.0.
InRegion_NoneIsOne(node, threshold) ==
    /\ FGe(node.density, threshold)
    /\ FGt(UnwrapOr(node.density_sum, Fin(Scale)), F0)

\* The condition of the scan loop of extract_content
InRegion(node, threshold) ==
    /\ FGe(node.density, threshold)
    /\ FGt(UnwrapOr(node.density_sum, F0), F0)

\* Mutant of ScanBlocks: current_block is not cleared at a failing node.
RECURSIVE ScanBlocks_NoReset(_, _, _, _, _)
ScanBlocks_NoReset(t, threshold, i, content_nodes, current_block) ==
    IF i > Len(t)
    THEN (IF Len(current_block) > Len(content_nodes)
          THEN current_block ELSE content_nodes)
    ELSE IF InRegion(t[i], threshold)
    THEN ScanBlocks_NoReset(t, threshold, i + 1, content_nodes,
                            Append(current_block, i))
    ELSE IF current_block # <<>>
    THEN ScanBlocks_NoReset(t, threshold, i + 1,
                            IF Len(current_block) > Len(content_nodes)
                            THEN current_block ELSE content_nodes,
                            current_block)
    ELSE ScanBlocks_NoReset(t, threshold, i + 1, content_nodes, current_block)

\* Mutant of ScanBlocks: a block replaces an earlier one of the same length.
RECURSIVE ScanBlocks_LastWins(_, _, _, _, _)
ScanBlocks_LastWins(t, threshold, i, content_nodes, current_block) ==
    IF i > Len(t)
    THEN (IF Len(current_block) >= Len(content_nodes)
          THEN current_block ELSE content_nodes)
    ELSE IF InRegion(t[i], threshold)
    THEN ScanBlocks_LastWins(t, threshold, i + 1, content_nodes,
                             Append(current_block, i))
    ELSE IF current_block # <<>>
    THEN ScanBlocks_LastWins(t, threshold, i + 1,
                             IF Len(current_block) >= Len(content_nodes)
                             THEN current_block ELSE content_nodes,
                             <<>>)
    ELSE ScanBlocks_LastWins(t, threshold, i + 1, content_nodes, current_block)

\* extract_content: "Find the largest contiguous block of high-density
\* content": the loop over tree.nodes() from index i on
RECURSIVE ScanBlocks(_, _, _, _, _)
ScanBlocks(t, threshold, i, content_nodes, current_block) ==
    IF i > Len(t)
    THEN (IF Len(current_block) > Len(content_nodes)
          THEN current_block ELSE content_nodes)
    ELSE IF InRegion(t[i], threshold)
    THEN ScanBlocks(t, threshold, i + 1, content_nodes,
                    Append(current_block, i))
    ELSE IF current_block # <<>>
    THEN ScanBlocks(t, threshold, i + 1,
                    IF Len(current_block) > Len(content_nodes)
                    THEN current_block ELSE content_nodes,
                    <<>>)
    ELSE ScanBlocks(t, threshold, i + 1, content_nodes, current_block)

(***************************************************************************)
(* src/src/utils.rs                                                        *)
(***************************************************************************)
\* NodeRef::descendants: the node itself and everything below, in pre-order
RECURSIVE Descendants(_, _)
RECURSIVE DescendantsOfAll(_, _)
DescendantsOfAll(document, ids) ==
    IF ids = <<>> THEN <<>>
    ELSE Descendants(document, Head(ids))
             \o DescendantsOfAll(document, Tail(ids))
Descendants(document, id) ==
    <<id>> \o DescendantsOfAll(document, DomChildren(document, id))

\* get_node_by_id succeeds
Resolves(node_id, document) == node_id \in 1..Len(document)

\* get_node_text, for a node_id the document resolves
RECURSIVE CleanTexts(_, _)
CleanTexts(document, ids) ==
    IF ids = <<>> THEN <<>>
    ELSE LET node == document[Head(ids)]
             rest == CleanTexts(document, Tail(ids))
         IN IF node.kind = "text" /\ Trim(node.text) # <<>>
            THEN <<Trim(node.text)>> \o rest
            ELSE rest

get_node_text(node_id, document) ==
    Join(CleanTexts(document, Descendants(document, node_id)))

\* Mutant of ExtractText: a text is pushed whether or not it was seen.
RECURSIVE ExtractText_NoSeenText(_, _, _, _, _)
ExtractText_NoSeenText(t, document, nodes, content, seen_text) ==
    IF nodes = <<>>
    THEN [ok |-> TRUE, text |-> normalize_text(content), err |-> 0]
    ELSE LET node_id == t[Head(nodes)].node_id
         IN IF ~Resolves(node_id, document)
            THEN [ok |-> FALSE, text |-> <<>>, err |-> node_id]
            ELSE ExtractText_NoSeenText(
                     t, document, Tail(nodes),
                     content \o get_node_text(node_id, document) \o <<" ">>,
                     seen_text)

\* Mutant of ExtractText: a node the document cannot resolve is passed over.
RECURSIVE ExtractText_SkipsUnresolved(_, _, _, _, _)
ExtractText_SkipsUnresolved(t, document, nodes, content, seen_text) ==
    IF nodes = <<>>
    THEN [ok |-> TRUE, text |-> normalize_text(content), err |-> 0]
    ELSE LET node_id == t[Head(nodes)].node_id
         IN IF ~Resolves(node_id, document)
            THEN ExtractText_SkipsUnresolved(t, document, Tail(nodes),
                                             content, seen_text)
            ELSE LET node_text == get_node_text(node_id, document)
                 IN IF node_text \notin seen_text
                    THEN ExtractText_SkipsUnresolved(
                             t, document, Tail(nodes),
                             content \o node_text \o <<" ">>,
                             seen_text \cup {node_text})
                    ELSE ExtractText_SkipsUnresolved(
                             t, document, Tail(nodes), content, seen_text)

\* extract_content: "Extract text from the content nodes, avoiding
\* duplication"; an unresolved node_id ends the loop with NodeAccessError.
RECURSIVE ExtractText(_, _, _, _, _)
ExtractText(t, document, nodes, content, seen_text) ==
    IF nodes = <<>>
    THEN [ok |-> TRUE, text |-> normalize_text(content), err |-> 0]
    ELSE LET node_id == t[Head(nodes)].node_id
         IN IF ~Resolves(node_id, document)
            THEN [ok |-> FALSE, text |-> <<>>, err |-> node_id]
            ELSE LET node_text == get_node_text(node_id, document)
                 IN IF node_text \notin seen_text
                    THEN ExtractText(t, document, Tail(nodes),
                                     content \o node_text \o <<" ">>,
                                     seen_text \cup {node_text})
                    ELSE ExtractText(t, document, Tail(nodes), content,
                                     seen_text)

\* Mutant of extract_content: an empty region is reported as an error.
extract_content_ErrOnEmpty(t, document) ==
    LET max_node == get_max_density_sum_node(t)
        threshold == Threshold(t, max_node)
        content_nodes == ScanBlocks(t, threshold, 1, <<>>, <<>>)
    IN [max_node |-> max_node, threshold |-> threshold,
        content_nodes |-> content_nodes,
        result |-> IF content_nodes = <<>>
                   THEN [ok |-> FALSE, text |-> <<>>, err |-> t[1].node_id]
                   ELSE ExtractText(t, document, content_nodes, <<>>, {})]

\* DensityTree::extract_content, with the values it computes on the way
extract_content(t, document) ==
    LET max_node == get_max_density_sum_node(t)
    IN IF max_node # 0
       THEN LET threshold == Threshold(t, max_node)
                content_nodes == ScanBlocks(t, threshold, 1, <<>>, <<>>)
            IN [max_node |-> max_node, threshold |-> threshold,
                content_nodes |-> content_nodes,
                result |-> ExtractText(t, document, content_nodes, <<>>, {})]
       ELSE [max_node |-> 0, threshold |-> F0, content_nodes |-> <<>>,
             result |-> [ok |-> TRUE, text |-> <<>>, err |-> 0]]

(***************************************************************************)
(* src/src/markdown.rs.  Above the body a parsed document has the html     *)
(* element and the Document node, which has no parent.  The conversion of  *)
(* markup to Markdown is done by an external crate: what is kept of a call *)
(* is the element whose inner_html was handed to the converter and the     *)
(* function that handed it over.                                           *)
(***************************************************************************)
HtmlNodeId == 0
DocumentNodeId == -1
NoNode == -2

\* NodeRef::parent in the DOM (NoNode for None)
DomParent(document, id) ==
    IF id = DocumentNodeId THEN NoNode
    ELSE IF id = HtmlNodeId THEN DocumentNodeId
    ELSE document[id].parent

\* ElementRef::wrap(node).is_some()
IsElementNode(document, id) ==
    \/ id = HtmlNodeId
    \/ id \in 1..Len(document) /\ document[id].kind = "element"

\* element.value().name()
ElementName(document, id) ==
    IF id = HtmlNodeId THEN "html" ELSE document[id].name

\* find_content_container: the tag names at which the walk stops
ContainerNames == {"article", "main", "section", "div", "content"}

\* find_content_container: "for _ in 0..5"
MaxLevels == 5

\* find_content_container: "Walk up a few levels to find a reasonable
\* container", with levels iterations left
RECURSIVE WalkUp(_, _, _)
WalkUp(document, current_node, levels) ==
    IF levels = 0 THEN current_node
    ELSE LET parent == DomParent(document, current_node)
         IN IF parent = NoNode THEN current_node
            ELSE IF /\ IsElementNode(document, parent)
                    /\ ElementName(document, parent) \in ContainerNames
            THEN parent
            ELSE WalkUp(document, parent, levels - 1)

\* find_content_container: "Find the nearest element that can be wrapped"
RECURSIVE NearestElement(_, _)
NearestElement(document, element_node) ==
    IF /\ DomParent(document, element_node) # NoNode
       /\ ~IsElementNode(document, element_node)
    THEN NearestElement(document, DomParent(document, element_node))
    ELSE element_node

\* The result of handing element's inner_html to the converter
Converted(via, element) ==
    [ok |-> TRUE, err |-> 0, via |-> via, element |-> element]

NotConverted(via, node_id) ==
    [ok |-> FALSE, err |-> node_id, via |-> via, element |-> NoNode]

\* find_content_container
find_content_container(max_node_id, document) ==
    IF ~Resolves(max_node_id, document)
    THEN NotConverted("find_content_container", max_node_id)
    ELSE LET current_node == WalkUp(document, max_node_id, MaxLevels)
             element_node == NearestElement(document, current_node)
         IN IF IsElementNode(document, element_node)
            THEN Converted("find_content_container", element_node)
            ELSE NotConverted("find_content_container", max_node_id)

\* extract_single_node_content: the loop to the nearest element
RECURSIVE SingleNodeElement(_, _)
SingleNodeElement(document, current_node) ==
    IF IsElementNode(document, current_node) THEN current_node
    ELSE IF DomParent(document, current_node) # NoNode
    THEN SingleNodeElement(document, DomParent(document, current_node))
    ELSE NoNode

\* extract_single_node_content
extract_single_node_content(node_id, document) ==
    IF ~Resolves(node_id, document)
    THEN NotConverted("extract_single_node_content", node_id)
    ELSE LET element == SingleNodeElement(document, node_id)
         IN IF element # NoNode
            THEN Converted("extract_single_node_content", element)
            ELSE NotConverted("extract_single_node_content", node_id)

\* extract_content_as_markdown: the threshold (0.0 without ancestors)
MarkdownThreshold(t, max_node) ==
    LET anc == Ancestors(t, max_node)
        ancestor_densities == [k \in 1..Len(anc) |-> t[anc[k]].density]
    IN IF ancestor_densities = <<>>
       THEN F0
       ELSE FDiv(FSum(ancestor_densities), AsF32(Len(ancestor_densities)))

\* extract_content_as_markdown: "Find high-density nodes"
RECURSIVE HighDensityNodes(_, _, _)
HighDensityNodes(t, threshold, i) ==
    IF i > Len(t) THEN <<>>
    ELSE (IF InRegion(t[i], threshold) THEN <<i>> ELSE <<>>)
             \o HighDensityNodes(t, threshold, i + 1)

\* extract_content_as_markdown
extract_content_as_markdown(t, document) ==
    LET max_node == get_max_density_sum_node(t)
    IN IF max_node = 0
       THEN [max_node |-> 0, threshold |-> F0, content_nodes |-> <<>>,
             result |-> [ok |-> TRUE, text |-> <<>>, err |-> 0],
             via |-> "none", element |-> NoNode]
       ELSE LET threshold == MarkdownThreshold(t, max_node)
                high_density_nodes == HighDensityNodes(t, threshold, 1)
                single ==
                    extract_single_node_content(t[max_node].node_id, document)
                found ==
                    find_content_container(t[max_node].node_id, document)
                r == IF high_density_nodes = <<>> THEN single
                     ELSE IF found.ok THEN found ELSE single
            IN [max_node |-> max_node, threshold |-> threshold,
                content_nodes |-> high_density_nodes,
                result |-> [ok |-> r.ok, text |-> <<>>, err |-> r.err],
                via |-> r.via, element |-> r.element]

(***************************************************************************)
(* State: the parsed document, the DensityTree built from it (<<>> while   *)
(* none exists), what the last call returned and the argument of the last  *)
(* call: the document passed to extract_content, the text passed to        *)
(* normalize_text as a lone text node, <<>> for any other call.            *)
(***************************************************************************)
VARIABLES document, tree, ret, given

vars == <<document, tree, ret, given>>

OkText(text) == [ok |-> TRUE, text |-> text, err |-> 0]

Ret(op, r) ==
    [op |-> op, max_node |-> r.max_node, threshold |-> r.threshold,
     content_nodes |-> r.content_nodes, result |-> r.result,
     nodes |-> IF "nodes" \in DOMAIN r THEN r.nodes ELSE <<>>,
     via |-> IF "via" \in DOMAIN r THEN r.via ELSE "none",
     element |-> IF "element" \in DOMAIN r THEN r.element ELSE NoNode]

NoValues ==
    [max_node |-> 0, threshold |-> F0, content_nodes |-> <<>>,
     result |-> OkText(<<>>)]

Init ==
    /\ \E n \in 1..MaxNodes :
         \E parents \in ParentVectors(n) :
           \E values \in [2..n -> NodeValues] :
             /\ WellFormed(MakeDocument(n, parents, values))
             /\ document = MakeDocument(n, parents, values)
    /\ tree = <<>>
    /\ ret = Ret("none", NoValues)
    /\ given = <<>>

\* let mut dtree = DensityTree::from_document(&document)?
FromDocument ==
    /\ tree = <<>>
    /\ tree' = from_document(document)
    /\ ret' = Ret("from_document", NoValues)
    /\ given' = <<>>
    /\ UNCHANGED document

\* dtree.calculate_density_sum()?
CalculateDensitySum ==
    /\ tree # <<>>
    /\ tree' = calculate_density_sum(tree)
    /\ ret' = Ret("calculate_density_sum", NoValues)
    /\ given' = <<>>
    /\ UNCHANGED document

\* dtree.get_max_density_sum_node()
GetMaxDensitySumNode ==
    /\ tree # <<>>
    /\ ret' = Ret("get_max_density_sum_node",
                  [NoValues EXCEPT !.max_node = get_max_density_sum_node(tree)])
    /\ given' = <<>>
    /\ UNCHANGED <<document, tree>>

\* dtree.extract_content(&document)
ExtractContent ==
    /\ tree # <<>>
    /\ ret' = Ret("extract_content", extract_content(tree, document))
    /\ given' = document
    /\ UNCHANGED <<document, tree>>

\* dtree.sorted_nodes()
SortedNodes ==
    /\ tree # <<>>
    /\ ret' = Ret("sorted_nodes",
                  [max_node |-> 0, threshold |-> F0, content_nodes |-> <<>>,
                   result |-> OkText(<<>>), nodes |-> sorted_nodes(tree)])
    /\ given' = <<>>
    /\ UNCHANGED <<document, tree>>

\* Another text than the one a text node holds
OtherText(text) ==
    IF text = <<"x", " ">> THEN <<"x", "e", "U+0301">> ELSE <<"x", " ">>

\* The same markup with every text replaced by another text
Retexted(d) ==
    [i \in 1..Len(d) |->
        IF d[i].kind = "text" THEN Text(OtherText(d[i].text), d[i].parent)
        ELSE d[i]]

\* Documents other than d that a caller may hold: a shorter page (the first
\* k nodes of d), a page with one more node, a page with other texts
OtherDocuments(d) ==
    ({SubSeq(d, 1, k) : k \in 1..(Len(d) - 1)}
        \cup {Append(d, Comment(BodyNodeId)), Retexted(d)}) \ {d}

\* dtree.extract_content(&other), other being a document the tree was not
\* built from
ExtractContentOther ==
    /\ tree # <<>>
    /\ \E other \in OtherDocuments(document) :
         /\ ret' = Ret("extract_content", extract_content(tree, other))
         /\ given' = other
    /\ UNCHANGED <<document, tree>>

Next ==
    \/ FromDocument
    \/ CalculateDensitySum
    \/ GetMaxDensitySumNode
    \/ ExtractContent
    \/ ExtractContentOther
    \/ SortedNodes

Spec == Init /\ [][Next]_vars

(***************************************************************************)
(* Hand-built trees.  DensityTree.tree and every field of DensityNode are  *)
(* pub, so a caller can hand extract_content and get_max_density_sum_node  *)
(* a tree whose density and density_sum it has set itself; the region      *)
(* scan is a function of these fields alone.                               *)
(***************************************************************************)
\* Values a caller stores in DensityNode::density
DensityValues == {Fin(Scale), Fin(2 * Scale)}

\* Values a caller stores in DensityNode::density_sum: Some(0.0), Some(1.0)
DensitySumValues == {F0, Fin(Scale)}

HandBuiltNode(node_id, parent, density, density_sum) ==
    [NewDensityNode(node_id, parent) EXCEPT
        !.density = density, !.density_sum = density_sum]

HandBuiltTree(n, parents, densities, density_sums) ==
    [i \in 1..n |->
        HandBuiltNode(i, parents[i], densities[i], density_sums[i])]

\* The document of elements whose nodes the hand-built tree refers to
ElementDocument(t) ==
    [i \in 1..Len(t) |->
        Element(IF i = BodyNodeId THEN "body" ELSE "div", t[i].parent)]

InitTree ==
    /\ \E n \in 1..MaxTreeNodes :
         \E parents \in ParentVectors(n) :
           \E densities \in [1..n -> DensityValues] :
             \E density_sums \in [1..n -> DensitySumValues] :
               tree = HandBuiltTree(n, parents, densities, density_sums)
    /\ document = ElementDocument(tree)
    /\ ret = Ret("none", NoValues)
    /\ given = <<>>

NextTree ==
    \/ CalculateDensitySum
    \/ GetMaxDensitySumNode
    \/ ExtractContent

SpecTree == InitTree /\ [][NextTree]_vars

(***************************************************************************)
(* Hand-built trees queried against documents with text.  extract_content  *)
(* takes the tree's fields and any &Html; the text loop depends on the     *)
(* region and on what the node_ids of its nodes resolve to in the document *)
(* it is given, which may hold fewer nodes than the tree refers to.        *)
(***************************************************************************)
InitText ==
    /\ \E n \in 1..MaxTextNodes :
         \E parents \in ParentVectors(n) :
           \E density_sums \in [1..n -> DensitySumValues] :
             tree = HandBuiltTree(n, parents, [i \in 1..n |-> Fin(Scale)],
                                  density_sums)
    /\ \E n \in 1..MaxTextNodes :
         \E parents \in ParentVectors(n) :
           \E values \in [2..n -> NodeValues] :
             /\ WellFormed(MakeDocument(n, parents, values))
             /\ document = MakeDocument(n, parents, values)
    /\ ret = Ret("none", NoValues)
    /\ given = <<>>

NextText ==
    \/ GetMaxDensitySumNode
    \/ ExtractContent

SpecText == InitText /\ [][NextText]_vars

(***************************************************************************)
(* Caller-set metrics.  composite_text_density is a pub function of two    *)
(* NodeMetrics whose fields are pub; calculate_density_tree (pub) applies  *)
(* it to every node of the tree with the root's metrics as body_metrics.   *)
(* A root and one child, each with metrics of the caller's choice, give    *)
(* every pair (metrics, body_metrics), and (body_metrics, body_metrics).   *)
(***************************************************************************)
MetricsValues ==
    [char_count : 0..MaxCount, tag_count : 0..MaxCount,
     link_char_count : 0..MaxCount, link_tag_count : 0..MaxCount]

MetricsNode(node_id, parent, metrics) ==
    [NewDensityNode(node_id, parent) EXCEPT !.metrics = metrics]

InitMetrics ==
    /\ \E body_metrics, metrics \in MetricsValues :
         tree = <<MetricsNode(1, 0, body_metrics), MetricsNode(2, 1, metrics)>>
    /\ document = ElementDocument(tree)
    /\ ret = Ret("none", NoValues)
    /\ given = <<>>

\* dtree.calculate_density_tree()
CalculateDensityTree ==
    /\ tree # <<>>
    /\ tree' = calculate_density_tree(tree)
    /\ ret' = Ret("calculate_density_tree", NoValues)
    /\ given' = <<>>
    /\ UNCHANGED document

NextMetrics ==
    \/ CalculateDensityTree
    \/ CalculateDensitySum

SpecMetrics == InitMetrics /\ [][NextMetrics]_vars

(***************************************************************************)
(* The two builders on documents with link-like elements: cetd.rs through  *)
(* from_document, lib.rs through its build_density_tree on a new tree.     *)
(***************************************************************************)
LinkElementNames == {"div", "a", "button", "select"}

LinkTextValues == { <<"x", " ">>, <<"x", "e", "U+0301">> }

LinkNodeValues ==
    {Element(n, 0) : n \in LinkElementNames}
        \cup {Text(t, 0) : t \in LinkTextValues}

InitBuild ==
    /\ \E n \in 1..MaxNodes :
         \E parents \in ParentVectors(n) :
           \E values \in [2..n -> LinkNodeValues] :
             /\ WellFormed(MakeDocument(n, parents, values))
             /\ document = MakeDocument(n, parents, values)
    /\ tree = <<>>
    /\ ret = Ret("none", NoValues)
    /\ given = <<>>

\* lib.rs: let mut density_tree = Self::new(body_node_id);
\*         Self::build_density_tree(body_node, &mut root, 1)
LibBuildDensityTree ==
    /\ tree = <<>>
    /\ tree' = lib_build_density_tree(document, BodyNodeId, 1,
                                      NewDensityTree(BodyNodeId))
    /\ ret' = Ret("lib_build_density_tree", NoValues)
    /\ given' = <<>>
    /\ UNCHANGED document

NextBuild ==
    \/ FromDocument
    \/ LibBuildDensityTree

SpecBuild == InitBuild /\ [][NextBuild]_vars

(***************************************************************************)
(* Every pass and query that follows the build pass, in any order, on a    *)
(* tree with metrics of the caller's choice (density 0.0, density_sum      *)
(* None, as the builder leaves the nodes).                                 *)
(***************************************************************************)
NextPasses ==
    \/ CalculateDensityTree
    \/ CalculateDensitySum
    \/ GetMaxDensitySumNode
    \/ SortedNodes
    \/ ExtractContent

SpecPasses == InitMetrics /\ [][NextPasses]_vars

(***************************************************************************)
(* Pages with embedded code.  A page of the kind above to which one        *)
(* element that build_density_tree skips is added, with a text of its own, *)
(* below any element of the page.                                          *)
(***************************************************************************)
\* The element names build_density_tree skips
ExcludedNames == {"script", "noscript", "style"}

\* The document d with <name>text</name> as the last child of node p
WithExcluded(d, name, p, text) ==
    d \o <<Element(name, p), Text(text, Len(d) + 1)>>

InitScript ==
    /\ \E n \in 1..MaxPageNodes :
         \E parents \in ParentVectors(n) :
           \E values \in [2..n -> NodeValues] :
             \E name \in ExcludedNames, p \in 1..n, text \in TextValues :
               LET d == WithExcluded(MakeDocument(n, parents, values),
                                     name, p, text)
               IN /\ WellFormed(d)
                  /\ document = d
    /\ tree = <<>>
    /\ ret = Ret("none", NoValues)
    /\ given = <<>>

NextScript ==
    \/ FromDocument
    \/ CalculateDensitySum
    \/ ExtractContent

SpecScript == InitScript /\ [][NextScript]_vars

(***************************************************************************)
(* Texts.  normalize_text is a pub function of a &str; extract_content     *)
(* applies it to the texts of the region's nodes.  A body with two text    *)
(* nodes, the first holding any string of up to MaxTextLen characters, and *)
(* a caller-built tree over these three nodes.                             *)
(***************************************************************************)
Characters == {"x", "e", "U+0301", " ", "\n"}

Strings(n) == UNION {[1..k -> Characters] : k \in 0..n}

InitNormalize ==
    /\ \E s1 \in Strings(MaxTextLen), s2 \in TextValues :
         document = <<Element("body", 0), Text(s1, 1), Text(s2, 1)>>
    /\ \E density_sums \in [1..3 -> DensitySumValues] :
         tree = HandBuiltTree(3, <<0, 1, 1>>, [i \in 1..3 |-> Fin(Scale)],
                              density_sums)
    /\ ret = Ret("none", NoValues)
    /\ given = <<>>

\* normalize_text(text), the text being one of the document or the string a
\* previous call returned; given holds the argument as a lone text node
NormalizeText ==
    /\ \E text \in {document[i].text : i \in 2..Len(document)}
                       \cup {ret.result.text} :
         /\ ret' = Ret("normalize_text",
                       [NoValues EXCEPT
                           !.result = OkText(normalize_text(text))])
         /\ given' = <<Text(text, 0)>>
    /\ UNCHANGED <<document, tree>>

NextNormalize ==
    \/ ExtractContent
    \/ NormalizeText

SpecNormalize == InitNormalize /\ [][NextNormalize]_vars

(***************************************************************************)
(* Markdown.  Pages whose content, a link and a text, lies inside a chain  *)
(* of up to MaxWrappers elements below the body.                           *)
(***************************************************************************)
WrapperNames == {"div", "span", "content"}

\* <body><w1>..<wk><a>link_text</a>text</wk>..</w1></body>
Wrapped(k, names, link_text, text) ==
    <<Element("body", 0)>>
        \o [i \in 1..k |-> Element(names[i], i)]
        \o <<Element("a", k + 1), Text(link_text, k + 2), Text(text, k + 1)>>

InitMarkdown ==
    /\ \E k \in 0..MaxWrappers :
         \E names \in [1..k -> WrapperNames] :
           \E link_text \in TextValues, text \in TextValues :
             document = Wrapped(k, names, link_text, text)
    /\ tree = <<>>
    /\ ret = Ret("none", NoValues)
    /\ given = <<>>

\* extract_content_as_markdown(&dtree, &document)
ExtractContentAsMarkdown ==
    /\ tree # <<>>
    /\ ret' = Ret("extract_content_as_markdown",
                  extract_content_as_markdown(tree, document))
    /\ given' = document
    /\ UNCHANGED <<document, tree>>

NextMarkdown ==
    \/ FromDocument
    \/ CalculateDensitySum
    \/ ExtractContentAsMarkdown

SpecMarkdown == InitMarkdown /\ [][NextMarkdown]_vars

(***************************************************************************)
(* Properties                                                              *)
(***************************************************************************)
Extracted == ret.op = "extract_content"

\* "density >= threshold AND density_sum > 0", for node i of the tree
Qualifies(i) ==
    /\ FPartialCmp(tree[i].density, ret.threshold) \in {"gt", "eq"}
    /\ IsSome(tree[i].density_sum)
    /\ FPartialCmp(tree[i].density_sum, F0) = "gt"

\* The maximal runs of consecutive qualifying nodes, as pairs <<first, last>>
MaximalRuns ==
    {r \in (1..Len(tree)) \X (1..Len(tree)) :
        /\ r[1] <= r[2]
        /\ \A i \in r[1]..r[2] : Qualifies(i)
        /\ r[1] > 1 => ~Qualifies(r[1] - 1)
        /\ r[2] < Len(tree) => ~Qualifies(r[2] + 1)}

RunLength(r) == r[2] - r[1] + 1

\* C1: the region selected by extract_content is a run of nodes that are
\* consecutive in scan order, each with density >= threshold and
\* density_sum > 0, and the nodes just before and just after it (if any) fail
\* that predicate.
C1_RegionIsMaximalRun ==
    Extracted =>
        LET R == ret.content_nodes
        IN /\ \A k \in 1..Len(R) : R[k] \in 1..Len(tree) /\ Qualifies(R[k])
           /\ \A k \in 1..(Len(R) - 1) : R[k + 1] = R[k] + 1
           /\ R # <<>> =>
                /\ R[1] > 1 => ~Qualifies(R[1] - 1)
                /\ R[Len(R)] < Len(tree) => ~Qualifies(R[Len(R)] + 1)

\* C1 witness: the selected run is followed by a failing node and then by
\* another qualifying node, which the region does not reach.
C1_Witness ==
    /\ Extracted
    /\ ret.content_nodes # <<>>
    /\ LET last == ret.content_nodes[Len(ret.content_nodes)]
       IN /\ last + 2 <= Len(tree)
          /\ ~Qualifies(last + 1)
          /\ Qualifies(last + 2)

\* C2: the selected region is a longest maximal run, and among the longest
\* ones the first in scan order; it is empty only when there is no run.
C2_LongestRunFirstWins ==
    Extracted =>
        LET R == ret.content_nodes
        IN IF MaximalRuns = {} THEN R = <<>>
           ELSE /\ R # <<>>
                /\ <<R[1], R[Len(R)]>> \in MaximalRuns
                /\ \A r \in MaximalRuns :
                     \/ RunLength(r) < Len(R)
                     \/ RunLength(r) = Len(R) /\ r[1] >= R[1]

\* C2 witness: two longest runs of equal length, the later one ending at the
\* last node of the tree; the earlier one is selected.
C2_Witness ==
    /\ Extracted
    /\ \E r1, r2 \in MaximalRuns :
         /\ r1[2] < r2[1]
         /\ RunLength(r1) = RunLength(r2)
         /\ r2[2] = Len(tree)
         /\ \A r \in MaximalRuns : RunLength(r) <= RunLength(r1)
         /\ ret.content_nodes[1] = r1[1]

\* The strict ancestors of node i of the tree: its parent up to the root
RECURSIVE StrictAncestors(_)
StrictAncestors(i) ==
    IF tree[i].parent = 0 THEN {}
    ELSE {tree[i].parent} \cup StrictAncestors(tree[i].parent)

\* The sum of density over a set of nodes of the tree
RECURSIVE DensityOver(_)
DensityOver(S) ==
    IF S = {} THEN F0
    ELSE LET i == CHOOSE x \in S : TRUE
         IN FAdd(DensityOver(S \ {i}), tree[i].density)

\* C3: the threshold of extract_content is the mean of density over the strict
\* ancestors of the node get_max_density_sum_node returns, and that node's
\* own density when it is the root.
C3_ThresholdIsAncestorMean ==
    Extracted =>
        /\ ret.max_node = get_max_density_sum_node(tree)
        /\ LET anc == StrictAncestors(ret.max_node)
           IN IF anc = {}
              THEN ret.max_node = 1 /\ ret.threshold = tree[1].density
              ELSE ret.threshold =
                       FDiv(DensityOver(anc), AsF32(Cardinality(anc)))

\* C3 witness: the maximum node has two ancestors of different non-zero
\* density, and a child of its own.
C3_Witness ==
    /\ Extracted
    /\ \E a, b \in StrictAncestors(ret.max_node) :
         /\ tree[a].density # tree[b].density
         /\ tree[a].density # F0 /\ tree[b].density # F0
    /\ \E c \in 1..Len(tree) : tree[c].parent = ret.max_node

GotMax == ret.op = "get_max_density_sum_node"
Summed == ret.op = "calculate_density_sum"
Nodes == 1..Len(tree)
AllNone == \A i \in Nodes : ~IsSome(tree[i].density_sum)
AllSome == \A i \in Nodes : IsSome(tree[i].density_sum)
NoNaNSum == \A i \in Nodes : ~IsNaN(tree[i].density_sum)

\* Node i's density_sum is not below node j's (None below every Some)
SumAtLeast(i, j) ==
    OptPartialCmp(tree[i].density_sum, tree[j].density_sum) \in {"gt", "eq"}

\* The nodes that attain the global maximum density_sum
AttainMax == {i \in Nodes : \A j \in Nodes : SumAtLeast(i, j)}

SetMin(S) == CHOOSE x \in S : \A y \in S : x <= y
SetMax(S) == CHOOSE x \in S : \A y \in S : x >= y

\* C4 as claimed: of several nodes that share the maximum density_sum,
\* get_max_density_sum_node returns the first in traversal order.
C4_Original_FirstOfTies ==
    (GotMax /\ AllSome /\ Cardinality(AttainMax) >= 2) =>
        ret.max_node = SetMin(AttainMax)

\* C4 amended: of several nodes that share the maximum density_sum (none of
\* the sums being NaN), get_max_density_sum_node returns the last in
\* traversal order.
C4_LastOfTies ==
    (GotMax /\ NoNaNSum /\ Cardinality(AttainMax) >= 2) =>
        ret.max_node = SetMax(AttainMax)

\* C4 witness: after calculate_density_sum several nodes share the maximum,
\* another node lies below it, and the last of the tied nodes is returned.
C4_Witness ==
    /\ GotMax /\ AllSome
    /\ Cardinality(AttainMax) >= 2
    /\ AttainMax # Nodes
    /\ ret.max_node = SetMax(AttainMax)
    /\ ret.max_node # SetMin(AttainMax)

\* C5: after calculate_density_sum the node get_max_density_sum_node returns
\* has a density_sum >= that of every node of the tree.
C5_MaxNodeDominates ==
    (GotMax /\ AllSome) =>
        /\ ret.max_node \in Nodes
        /\ \A j \in Nodes :
             FGe(tree[ret.max_node].density_sum, tree[j].density_sum)

\* C5 witness: the returned node is not the last node of the tree and its
\* sum is strictly greater than that of a node after it.
C5_Witness ==
    /\ GotMax /\ AllSome
    /\ ret.max_node < Len(tree)
    /\ \E j \in Nodes :
         FGt(tree[ret.max_node].density_sum, tree[j].density_sum)

\* The builder leaves out: script, style and noscript elements, comments
\* and document nodes
Excluded(d) ==
    \/ document[d].kind = "element"
         /\ document[d].name \in {"script", "style", "noscript"}
    \/ document[d].kind \in {"comment", "document"}

\* DOM node d lies in the retained subtree of DOM node top
RECURSIVE InRetainedSubtree(_, _)
InRetainedSubtree(d, top) ==
    \/ d = top
    \/ /\ document[d].parent # 0
       /\ ~Excluded(d)
       /\ InRetainedSubtree(document[d].parent, top)

RetainedUnder(top) ==
    {d \in 1..Len(document) : InRetainedSubtree(d, top)}

\* The number of characters of the trimmed text of DOM node d
TrimmedChars(d) == count_graphemes(Trim(document[d].text))

RECURSIVE TrimmedCharsOver(_)
TrimmedCharsOver(S) ==
    IF S = {} THEN 0
    ELSE LET d == CHOOSE x \in S : TRUE
         IN TrimmedChars(d) + TrimmedCharsOver(S \ {d})

\* C6: after build_density_tree every density node's char_count is the total
\* of the trimmed-text character counts of the retained text nodes of its
\* subtree and its tag_count the number of retained elements of its subtree.
C6_CountsAreSubtreeTotals ==
    \A i \in Nodes :
        LET sub == RetainedUnder(tree[i].node_id)
        IN /\ tree[i].metrics.char_count =
                  TrimmedCharsOver({d \in sub : document[d].kind = "text"})
           /\ tree[i].metrics.tag_count =
                  Cardinality({d \in sub : document[d].kind = "element"})

\* C6 witness: an inner node totals the text below it and the root totals
\* that and more text elsewhere.
C6_Witness ==
    /\ tree # <<>>
    /\ \E i \in Nodes :
         /\ i # 1
         /\ tree[i].metrics.tag_count >= 1
         /\ tree[i].metrics.char_count >= 1
         /\ tree[1].metrics.char_count > tree[i].metrics.char_count

\* The document with every node of an excluded subtree (the excluded node
\* itself and all below it) replaced by an empty comment
InExcludedSubtree(d) == ~InRetainedSubtree(d, BodyNodeId)

Blanked ==
    [d \in 1..Len(document) |->
        IF InExcludedSubtree(d) THEN Comment(document[d].parent)
        ELSE document[d]]

\* C7: the density tree has exactly one node per DOM node reachable from the
\* body through non-excluded children, with distinct node_ids, the DOM's
\* parent relation and sibling order; and what lies inside excluded subtrees
\* has no influence on any metric.
C7_TreeMirrorsRetainedDom ==
    tree # <<>> =>
        /\ tree[1].node_id = BodyNodeId /\ tree[1].parent = 0
        /\ {tree[i].node_id : i \in Nodes} = RetainedUnder(BodyNodeId)
        /\ \A i, j \in Nodes : i # j => tree[i].node_id # tree[j].node_id
        /\ \A i \in Nodes \ {1} :
             /\ tree[i].parent \in Nodes
             /\ tree[tree[i].parent].node_id = document[tree[i].node_id].parent
        /\ \A i, j \in Nodes :
             (i < j /\ tree[i].parent = tree[j].parent)
                 => tree[i].node_id < tree[j].node_id
        /\ LET clean == from_document(Blanked)
           IN /\ Len(clean) = Len(tree)
              /\ \A i \in Nodes : tree[i].metrics = clean[i].metrics

\* C7 witness: the document has a script element with text in it and a
\* retained element; the tree is built.
C7_Witness ==
    /\ tree # <<>>
    /\ Len(tree) >= 2
    /\ \E d \in 1..Len(document) :
         /\ document[d].kind = "text" /\ TrimmedChars(d) > 0
         /\ document[document[d].parent].name = "script"
    /\ \E d \in 1..Len(document) :
         document[d].kind = "element" /\ document[d].name = "div"

\* C8: after calculate_density_sum every node's density_sum is Some(s), s
\* being the sum of density over the node's direct children (0 for a leaf).
C8_SumOfDirectChildren ==
    Summed =>
        \A i \in Nodes :
            /\ IsSome(tree[i].density_sum)
            /\ tree[i].density_sum =
                   DensityOver({c \in Nodes : tree[c].parent = i})

\* C8 witness: a node with two children and a grandchild, all of non-zero
\* density, and a leaf.
C8_Witness ==
    /\ Summed
    /\ \E i, c1, c2, g \in Nodes :
         /\ c1 # c2 /\ tree[c1].parent = i /\ tree[c2].parent = i
         /\ tree[g].parent = c1
         /\ tree[c1].density # F0 /\ tree[c2].density # F0
         /\ tree[g].density # F0
         /\ tree[c2].density_sum = F0

\* C9: every node of the tree from_document returns has density_sum None,
\* which stays None until calculate_density_sum is called; once that has
\* returned every node has Some; the tree never holds both.
C9_NoneUntilSummed ==
    /\ [](AllNone \/ AllSome)
    /\ [][ret'.op = "from_document" => \A i \in 1..Len(tree') :
              ~IsSome(tree'[i].density_sum)]_vars
    /\ [][(tree # <<>> /\ AllNone /\ ret'.op # "calculate_density_sum")
              => \A i \in 1..Len(tree') : ~IsSome(tree'[i].density_sum)]_vars
    /\ [][ret'.op = "calculate_density_sum" => \A i \in 1..Len(tree') :
              IsSome(tree'[i].density_sum)]_vars

\* C9 witness: calculate_density_sum has returned on a tree of several nodes
\* on which extract_content could be called before.
C9_Witness == Summed /\ Len(tree) >= 3

\* No retained node of the document holds text
NoRetainedText ==
    \A d \in RetainedUnder(BodyNodeId) :
        document[d].kind = "text" => TrimmedChars(d) = 0

\* C10: extract_content returns Ok("") when no node satisfies the region
\* predicate, as it does for an empty body, a document without text and a
\* body of excluded content only.
C10_EmptyRegionIsOkEmpty ==
    Extracted =>
        /\ (\A i \in Nodes : ~Qualifies(i)) => ret.result = OkText(<<>>)
        /\ NoRetainedText => ret.result = OkText(<<>>)

\* C10 witness: extract_content on the summed tree of a body that holds only
\* a script element with text in it.
C10_Witness ==
    /\ Extracted /\ AllSome
    /\ Len(document) = 3
    /\ document[2].name = "script" /\ document[3].parent = 2
    /\ document[3].kind = "text" /\ TrimmedChars(3) > 0
    /\ ret.result = OkText(<<>>)

\* extract_content was given a document the tree was not built from
GivenOther == Extracted /\ given # document

\* C11 as claimed: extract_content with a document other than the one the
\* tree was built from returns an access error, never Ok.
C11_Original_OtherDocumentIsError ==
    GivenOther => ~ret.result.ok

\* The region of the last extract_content and the node_ids of its nodes
Region == ret.content_nodes
RegionId(k) == tree[Region[k]].node_id

\* The positions of the region whose node_id the given document cannot
\* resolve
Unresolved == {k \in 1..Len(Region) : RegionId(k) \notin 1..Len(given)}

NodeAccessError(id) == [ok |-> FALSE, text |-> <<>>, err |-> id]

ErrExactlyAtFirstUnresolved ==
    Extracted =>
        /\ Unresolved = {} => ret.result.ok
        /\ Unresolved # {} =>
             ret.result = NodeAccessError(RegionId(SetMin(Unresolved)))

\* C12: extract_content returns Err(NodeAccessError(id)) exactly when a node
\* of the winning run has a node_id the given document cannot resolve, id
\* being that of the first such node in run order; the error carries no
\* text, and the call leaves the density tree as it was.
C12_ErrAtFirstUnresolved ==
    /\ []ErrExactlyAtFirstUnresolved
    /\ [][ret'.op = "extract_content" => tree' = tree]_vars

\* C12 witness: the first node of the run resolves and two later ones do
\* not; the error names the earlier of the two.
C12_Witness ==
    /\ Extracted
    /\ Cardinality(Unresolved) >= 2
    /\ 1 \notin Unresolved
    /\ ret.result = NodeAccessError(RegionId(SetMin(Unresolved)))

\* The text the given document holds under the k-th node of the region
RegionText(k) == get_node_text(RegionId(k), given)

\* No earlier node of the region produced the text of the k-th node
FirstOccurrence(k) == \A j \in 1..(k - 1) : RegionText(j) # RegionText(k)

\* The texts of the first occurrences from position k on, in run order, each
\* followed by a space
RECURSIVE EmittedFrom(_)
EmittedFrom(k) ==
    IF k > Len(Region) THEN <<>>
    ELSE (IF FirstOccurrence(k) THEN RegionText(k) \o <<" ">> ELSE <<>>)
             \o EmittedFrom(k + 1)

\* C13: the extracted string is made of the texts of exactly those run nodes
\* whose text no earlier node of the run produced, in run order (so the
\* emitted texts are pairwise distinct), whitespace-normalised.
C13_EmitsFirstOccurrencesInOrder ==
    (Extracted /\ ret.result.ok) =>
        ret.result.text = normalize_text(EmittedFrom(1))

\* C13 witness: two nodes of the run produce the same non-empty text, a
\* third one a different text, and the text is returned once.
C13_Witness ==
    /\ Extracted /\ ret.result.ok
    /\ \E j, k, i \in 1..Len(Region) :
         /\ j < k
         /\ RegionText(j) = RegionText(k)
         /\ RegionText(j) # <<>>
         /\ RegionText(i) # RegionText(j)
    /\ ret.result.text # <<>>

\* The text nodes with text whose content the text of the k-th node of the
\* region holds
TextNodesUnder(k) ==
    LET ds == Descendants(given, RegionId(k))
    IN {ds[i] : i \in {j \in DOMAIN ds :
                         /\ given[ds[j]].kind = "text"
                         /\ Trim(given[ds[j]].text) # <<>>}}

\* The nodes of the region whose emitted text holds the content of DOM text
\* node d
EmittedWith(d) ==
    {k \in 1..Len(Region) : FirstOccurrence(k) /\ d \in TextNodesUnder(k)}

\* C14 as claimed: the content of each DOM text node occurs at most once in
\* the extracted string, also when the run holds a node and one of its own
\* descendants.
C14_Original_TextNodeAtMostOnce ==
    (Extracted /\ ret.result.ok) =>
        \A d \in 1..Len(given) : Cardinality(EmittedWith(d)) <= 1

\* calculate_density_tree has returned
Calculated == ret.op = "calculate_density_tree"

\* C15 as claimed: composite_text_density is finite (neither infinite nor
\* NaN) for all node metrics and body metrics, body.link_char_count = 0
\* and link_char_count > char_count included.
C15_Original_DensityIsFinite ==
    Calculated => \A i \in Nodes : IsFin(tree[i].density)

\* C16: composite_text_density is exactly 0.0 when the node's char_count is
\* 0, whatever the other node metrics and the body metrics are; so after
\* calculate_density_tree every node without text has density 0.0.
C16_NoTextZeroDensity ==
    Calculated =>
        \A i \in Nodes : tree[i].metrics.char_count = 0 => tree[i].density = F0

\* C16 witness: a node with char_count 0 and every other count non-zero,
\* under a body with text and no link text (where a node with text gets an
\* infinite density), has density 0.0.
C16_Witness ==
    /\ Calculated
    /\ tree[2].metrics.char_count = 0
    /\ tree[2].metrics.tag_count > 0
    /\ tree[2].metrics.link_char_count > 0
    /\ tree[2].metrics.link_tag_count > 0
    /\ tree[1].metrics.char_count > 0
    /\ tree[1].metrics.link_char_count = 0
    /\ ~IsFin(tree[1].density)
    /\ tree[2].density = F0

\* The retained a, button and select elements of the document
IsLinkTag(d) ==
    document[d].kind = "element" /\ document[d].name \in {"a", "button", "select"}

\* C17 as claimed: an a, button or select element counts 1 in
\* link_tag_count and every other element 0, so each node's link_tag_count
\* is the number of retained a, button and select elements of its subtree.
C17_Original_LinkTagsCounted ==
    \A i \in Nodes :
        tree[i].metrics.link_tag_count =
            Cardinality({d \in RetainedUnder(tree[i].node_id) : IsLinkTag(d)})

\* The retained nodes under density node i whose DOM parent is an <a>
UnderAnchor(i) ==
    {d \in RetainedUnder(tree[i].node_id) :
        /\ document[d].parent # 0
        /\ document[document[d].parent].kind = "element"
        /\ document[document[d].parent].name = "a"}

\* The characters of the trimmed text of DOM node d alone
LocalChars(d) == IF document[d].kind = "text" THEN TrimmedChars(d) ELSE 0

\* The characters of all retained text under DOM node d, d included
SubtreeChars(d) ==
    TrimmedCharsOver({x \in RetainedUnder(d) : document[x].kind = "text"})

RECURSIVE LocalCharsOver(_)
LocalCharsOver(S) ==
    IF S = {} THEN 0
    ELSE LET d == CHOOSE x \in S : TRUE
         IN LocalChars(d) + LocalCharsOver(S \ {d})

RECURSIVE SubtreeCharsOver(_)
SubtreeCharsOver(S) ==
    IF S = {} THEN 0
    ELSE LET d == CHOOSE x \in S : TRUE
         IN SubtreeChars(d) + SubtreeCharsOver(S \ {d})

\* C18 as claimed: only nodes whose immediate DOM parent is an <a> add to
\* link_char_count, and each adds its own local char_count, so text more
\* than one level below an anchor is not link text.
C18_Original_AddsLocalChars ==
    \A i \in Nodes :
        tree[i].metrics.link_char_count = LocalCharsOver(UnderAnchor(i))

\* C18 amended: only nodes whose immediate DOM parent is an <a> add to
\* link_char_count, and each adds the char_count aggregated over its own
\* retained subtree; a node's link_char_count is the total of these.
C18_AddsAggregatedChars ==
    \A i \in Nodes :
        tree[i].metrics.link_char_count = SubtreeCharsOver(UnderAnchor(i))

\* C18 witness: an element directly under an <a> holds text one level
\* further down; the text node has no link characters, the element has.
C18_Witness ==
    /\ tree # <<>>
    /\ \E i, j \in Nodes :
         /\ tree[j].parent = i
         /\ document[tree[i].node_id].kind = "element"
         /\ tree[i].node_id \in UnderAnchor(i)
         /\ document[tree[j].node_id].kind = "text"
         /\ tree[j].metrics.char_count > 0
         /\ tree[j].metrics.link_char_count = 0
         /\ tree[i].metrics.link_char_count = tree[j].metrics.char_count

\* DOM node d lies inside an <a> element: one of its ancestors is an <a>
RECURSIVE InsideAnchor(_)
InsideAnchor(d) ==
    LET p == document[d].parent
    IN /\ p # 0
       /\ \/ document[p].kind = "element" /\ document[p].name = "a"
          \/ InsideAnchor(p)

\* All retained text under density node i lies inside <a> elements
AllTextInsideAnchors(i) ==
    \A d \in RetainedUnder(tree[i].node_id) :
        (document[d].kind = "text" /\ TrimmedChars(d) > 0) => InsideAnchor(d)

\* C19 as claimed: after the build pass every density node all of whose
\* retained text lies inside anchors has link_char_count = char_count,
\* whatever the nesting of the text below the anchor and of the anchors.
C19_Original_LinkCharsEqualChars ==
    \A i \in Nodes :
        AllTextInsideAnchors(i) =>
            tree[i].metrics.link_char_count = tree[i].metrics.char_count

\* sorted_nodes has returned
Sorted == ret.op = "sorted_nodes"

\* C20 as claimed: sorted_nodes returns every node whose density is not
\* zero, and only those, each once, in ascending order of density.
C20_Original_AllNonZeroAscending ==
    Sorted =>
        /\ {ret.nodes[k] : k \in 1..Len(ret.nodes)} =
               {i \in Nodes : tree[i].density # F0}
        /\ \A j, k \in 1..Len(ret.nodes) :
               j < k =>
                   /\ ret.nodes[j] # ret.nodes[k]
                   /\ FPartialCmp(tree[ret.nodes[j]].density,
                                  tree[ret.nodes[k]].density) \in {"lt", "eq"}

\* C21 as claimed: get_max_density_sum_node returns None (0 here) when
\* every node of the tree has density_sum None, that is, before
\* calculate_density_sum has run.
C21_Original_NoneWhenAllNone ==
    (GotMax /\ AllNone) => ret.max_node = 0

\* The children of density node i in DOM sibling order: in the order in
\* which their DOM nodes stand among the children of i's DOM node
SiblingOrdered(i) ==
    LET dom == DomChildren(document, tree[i].node_id)
        kept == SelectSeq(dom, LAMBDA d : \E j \in Nodes :
                                  tree[j].parent = i /\ tree[j].node_id = d)
    IN [k \in 1..Len(kept) |->
           CHOOSE j \in Nodes : tree[j].parent = i /\ tree[j].node_id = kept[k]]

\* The depth-first pre-order of the density tree below (and with) node i
RECURSIVE PreOrder(_)
RECURSIVE PreOrderOfAll(_)
PreOrderOfAll(children) ==
    IF children = <<>> THEN <<>>
    ELSE PreOrder(Head(children)) \o PreOrderOfAll(Tail(children))
PreOrder(i) == <<i>> \o PreOrderOfAll(SiblingOrdered(i))

\* C22: the storage order of the tree's nodes, which is the order of their
\* creation by build_density_tree and the order extract_content scans, is
\* the depth-first pre-order of the density tree with children in DOM
\* sibling order.
C22_StorageOrderIsPreOrder ==
    tree # <<>> => PreOrder(1) = [i \in 1..Len(tree) |-> i]

\* C22 witness: the root has two children and the first of them a child of
\* its own, which is stored before the second (and after it in the DOM's
\* numbering); extract_content has scanned the tree.
C22_Witness ==
    /\ Extracted
    /\ Len(tree) = 4
    /\ tree[2].parent = 1 /\ tree[3].parent = 2 /\ tree[4].parent = 1
    /\ tree[3].node_id > tree[4].node_id

\* The structure of a tree: its nodes with their node_id, parent and metrics
Structure(t) ==
    [i \in 1..Len(t) |->
        [node_id |-> t[i].node_id, parent |-> t[i].parent,
         metrics |-> t[i].metrics]]

Densities(t) == [i \in 1..Len(t) |-> t[i].density]
DensitySums(t) == [i \in 1..Len(t) |-> t[i].density_sum]

\* C23: after the build pass every step leaves the nodes, their parents,
\* node_ids and metrics as they are; calculate_density_tree changes density
\* only, calculate_density_sum changes density_sum only, and
\* get_max_density_sum_node, sorted_nodes and extract_content change nothing.
C23_PassesKeepStructure ==
    [][tree # <<>> =>
          /\ Structure(tree') = Structure(tree)
          /\ ret'.op = "calculate_density_tree"
                 => DensitySums(tree') = DensitySums(tree)
          /\ ret'.op = "calculate_density_sum"
                 => Densities(tree') = Densities(tree)
          /\ ret'.op \in {"get_max_density_sum_node", "sorted_nodes",
                           "extract_content"} => tree' = tree]_vars

\* C23 witness: extract_content has returned on a tree whose densities and
\* density_sums the two passes have set to non-zero values, next to metrics
\* that are not all alike.
C23_Witness ==
    /\ Extracted /\ AllSome
    /\ tree[2].density # F0
    /\ tree[1].density_sum # F0
    /\ tree[1].metrics # tree[2].metrics

\* C24: a second calculate_density_sum, with no calculate_density_tree in
\* between, leaves every density_sum as the first run set it.
C24_SumIsIdempotent ==
    /\ [](Summed =>
            DensitySums(calculate_density_sum(tree)) = DensitySums(tree))
    /\ [][(Summed /\ ret'.op = "calculate_density_sum")
              => DensitySums(tree') = DensitySums(tree)]_vars

\* C24 witness: calculate_density_sum has returned on a tree whose root has
\* a child of non-zero density, so that its sum is not zero.
C24_Witness ==
    /\ Summed
    /\ tree[2].density # F0
    /\ tree[1].density_sum # F0
    /\ IsSome(tree[1].density_sum)

\* The children of node i of the density tree, and the first of them
ChildrenOf(i) == {c \in Nodes : tree[c].parent = i}
FirstChildOf(i) == SetMin(ChildrenOf(i))

\* C25: after from_document and calculate_density_sum, every node of the
\* region extract_content selects has a child, each node after the first is
\* the first child of the node before it, and no two nodes of the region are
\* siblings.
C25_RegionIsFirstChildChain ==
    Extracted =>
        /\ \A k \in 1..Len(Region) : ChildrenOf(Region[k]) # {}
        /\ \A k \in 2..Len(Region) : Region[k] = FirstChildOf(Region[k - 1])
        /\ \A j, k \in 1..Len(Region) :
              j # k => tree[Region[j]].parent # tree[Region[k]].parent

\* C25 witness: a region of two nodes or more, the first of which has a
\* second child, so that the first child is told apart from the others.
C25_Witness ==
    /\ Extracted
    /\ AllSome
    /\ Len(Region) >= 2
    /\ Cardinality(ChildrenOf(Region[1])) >= 2

\* C26 as claimed: the string extract_content returns holds no text of an
\* excluded DOM subtree (script, style, noscript): it is the string returned
\* for the same document with the excluded subtrees emptied.
C26_Original_NoExcludedText ==
    (Extracted /\ given = document) =>
        ret.result = extract_content(tree, Blanked).result

\* C27: extract_content on a tree whose density_sum fields are all absent
\* (from_document without calculate_density_sum) selects no node and returns
\* Ok with the empty string, whatever document it is given.
C27_UnsummedIsOkEmpty ==
    (Extracted /\ AllNone) =>
        /\ Region = <<>>
        /\ ret.result = OkText(<<>>)

\* C27 witness: extract_content has returned on an unsummed tree for a
\* document from which it extracts text once the sums are calculated.
C27_Witness ==
    /\ Extracted
    /\ AllNone
    /\ given = document
    /\ LET r == extract_content(calculate_density_sum(tree), document)
       IN r.content_nodes # <<>> /\ r.result # OkText(<<>>)

\* The node get_max_density_sum_node returns is one of the selected nodes
MaxNodeInRegion == \E k \in 1..Len(Region) : Region[k] = ret.max_node

\* C28 as claimed: a non-empty region selected by extract_content contains
\* the node get_max_density_sum_node returns.
C28_Original_RegionHoldsMaxNode ==
    (Extracted /\ Region # <<>>) => MaxNodeInRegion

\* The maximal run of qualifying nodes that holds node i
RunOf(i) == CHOOSE r \in MaximalRuns : r[1] <= i /\ i <= r[2]

\* C28: when the region selected by extract_content is not empty, the node
\* get_max_density_sum_node returns has a density_sum above 0; if it also
\* has a density at or above the threshold and is not in the region, then
\* the region is an earlier run at least as long as the run it lies in, or a
\* later run that is longer.
C28_MaxNodeInNoLongerRun ==
    (Extracted /\ Region # <<>>) =>
        /\ FGt(tree[ret.max_node].density_sum, F0)
        /\ (Qualifies(ret.max_node) /\ ~MaxNodeInRegion) =>
              LET r == RunOf(ret.max_node)
              IN \/ Region[1] < r[1] /\ Len(Region) >= r[2] - r[1] + 1
                 \/ Region[1] > r[2] /\ Len(Region) > r[2] - r[1] + 1

\* C28 witness: a region that leaves out the node the threshold was derived
\* from although that node satisfies the region predicate.
C28_Witness ==
    /\ Extracted
    /\ Region # <<>>
    /\ Qualifies(ret.max_node)
    /\ ~MaxNodeInRegion

\* The string has no white space at either end, no two white-space
\* characters in a row, and no white space other than the space
SingleSpaced(s) ==
    /\ s # <<>> => ~IsWhitespace(s[1]) /\ ~IsWhitespace(s[Len(s)])
    /\ \A i \in 1..(Len(s) - 1) :
          ~(IsWhitespace(s[i]) /\ IsWhitespace(s[i + 1]))
    /\ \A i \in 1..Len(s) : IsWhitespace(s[i]) => s[i] = " "

Normalized == ret.op = "normalize_text"

\* C29: the string extract_content returns has no leading or trailing white
\* space and no two consecutive white-space characters, and normalize_text
\* is idempotent: applied to its own result it returns that result.
C29_SingleSpacedAndIdempotent ==
    /\ (Extracted /\ ret.result.ok) => SingleSpaced(ret.result.text)
    /\ Normalized =>
          LET s == given[1].text
          IN /\ ret.result.text = normalize_text(s)
             /\ normalize_text(normalize_text(s)) = normalize_text(s)
             /\ SingleSpaced(ret.result.text)

\* The text has two white-space characters in a row between two others
HasInnerGap(s) ==
    \E i \in 2..(Len(s) - 2) :
        /\ IsWhitespace(s[i]) /\ IsWhitespace(s[i + 1])
        /\ ~IsWhitespace(s[i - 1]) /\ ~IsWhitespace(s[i + 2])

\* C29 witness: extract_content has returned the text of two nodes, one of
\* them with two white-space characters inside and one with a decomposed
\* character that the result holds composed.
C29_Witness ==
    /\ Extracted
    /\ Len(Region) = 2
    /\ HasInnerGap(document[2].text)
    /\ \E i \in 1..Len(ret.result.text) : ret.result.text[i] = "U+00E9"
    /\ Len(ret.result.text) >= 7

\* DOM node a is a strict ancestor of DOM node d
RECURSIVE IsDomAncestor(_, _)
IsDomAncestor(a, d) ==
    /\ d \in 1..Len(document)
    /\ document[d].parent # 0
    /\ \/ document[d].parent = a
       \/ IsDomAncestor(a, document[d].parent)

ViaContainer ==
    /\ ret.op = "extract_content_as_markdown"
    /\ ret.via = "find_content_container"
    /\ ret.result.ok

\* C30 as claimed: the element find_content_container hands to the
\* converter is an article, main, section or div element that is an ancestor
\* of the max-density_sum node in the DOM.
C30_Original_HandsWrappingContainer ==
    ViaContainer =>
        /\ ret.element \in 1..Len(document)
        /\ document[ret.element].kind = "element"
        /\ document[ret.element].name \in {"article", "main", "section", "div"}
        /\ IsDomAncestor(ret.element, tree[ret.max_node].node_id)

====
